---- MODULE Spec2Model ----
(***************************************************************************)
(* Model of src/script.js: the before/after media page.                    *)
(*                                                                         *)
(*   - the audio dual-channel mixer built by wireAudio (crossfade, master  *)
(*     level, paired transport, drift correction, keyboard toggle),        *)
(*   - the visibility controllers (initAudioMasterScroll and               *)
(*     initMeterAudioControl) and their requestAnimationFrame callbacks,   *)
(*   - the video pair synchroniser syncVideoPair (start and loop restart), *)
(*   - the page initialisation sequence init().                            *)
(*                                                                         *)
(* Units.  The code keeps mixValue and masterLevel as fractions in [0,1];  *)
(* the model keeps them in percent (0..100), so a volume, the product of   *)
(* two fractions, is kept in 1/10000.  Playback positions are in           *)
(* milliseconds.  Lengths of the page layout are in abstract rows.         *)
(***************************************************************************)
EXTENDS Integers, FiniteSets, Sequences, TLC

\* ------------------------------------------------------------ bounds ----
\* Milliseconds the playback position of a playing track advances per step.
Step == 40
\* Number of such steps a track can advance (its modelled duration).
MaxPos == 3
\* Largest scroll offset of the page, in rows.
MaxScroll == 3
\* Length of the video clips, in position steps.
VideoLen == 2
\* Page layout: height of the viewport before a resize, and the document
\* rows of the #audio and #visualizer sections.
ViewportH == 2
AudioTop == 2
AudioH == 2
MeterTop == 4
MeterH == 2
\* listener runs allowed to a chain of audio events
ChainFuel == 3
\* frames of an audio buffer handed to bufferToWave
MaxFrames == 1
\* a sample is a multiple of 1/SampleScale, from -(1 + 1/SampleScale) to
\* 1 + 1/SampleScale
SampleScale == 2

\* ------------------------------------------------- program constants ----
\* defaultFade (0 = before only, 100 = after only)
defaultFade == 35
\* alignPlayback's threshold, 0.08 s, in milliseconds
DriftLimit == 80
\* the meter controller's audible floor, 0.6, in percent
MeterFloor == 60
\* the readiness threshold of start(): HAVE_FUTURE_DATA
CanPlay == 3
\* the number of 'seeked' events onSeeked waits for
NeedSeeked == 2

A == {"before", "after"}
Other(a) == IF a = "before" THEN "after" ELSE "before"

\* Values a visitor can put on the fader (a range input from 0 to 100).
FaderInputs == {30, 80}
\* Levels handed to the exported setMasterLevel, in percent; some lie
\* outside [0,1].
LevelInputs == {-50, 0, 50, 100, 150}

Abs(x) == IF x < 0 THEN -x ELSE x
Min(x, y) == IF x < y THEN x ELSE y
Max(x, y) == IF x > y THEN x ELSE y
\* Math.min(1, Math.max(0, x)), in percent
Clamp01(x) == Min(100, Max(0, x))

VARIABLES
  pc,        \* position of init(): "loading", "tone", "done", "failed"
  hasFader,  \* whether the page holds a [data-audio-fader] control
  hasAudio,  \* whether the page holds both [data-audio] elements
  wired,     \* the steps of init() that have run
  wave,      \* one run of bufferToWave: its argument, loop variables, buffer
  gesture,   \* whether the visitor has interacted with the page (the
             \* platform rejects a play command on an unmuted element before)
  audio,     \* the audio pair and the mix state of wireAudio
  meter,     \* the meter pair's mix state of initMeterAudioControl
  scrollY,   \* scroll offset of the page
  vh,        \* window.innerHeight
  raf,       \* queued animation-frame callbacks, per controller: the kinds
             \* of event ("scroll", "resize") whose onScroll requested one
  evals,     \* computeLevel runs of the last display refresh, per controller
  video      \* the video pair and the state of its syncVideoPair

vars == <<pc, hasFader, hasAudio, wired, wave, gesture, audio, meter, scrollY, vh, raf, evals, video>>

Controllers == {"audio", "meter"}

\* ------------------------------------------------ the audio mixer ----
\* A command a handler issues to an element is recorded in the field cmds
\* of the pair's record; cmds holds the commands of the last step only.
\* note, likewise, holds what the last step noted: the mix value a key press
\* found (audio), an 'ended' event that restart ignored (video).
Begin(s) == [s EXCEPT !.cmds = {}, !.note = <<>>]

\* play() that queues a 'play' event on a playing element as well
playAlwaysFires(s, a, g) ==
  LET s1 == [s EXCEPT !.cmds = @ \cup {<<"play", a>>}]
  IN  IF g \/ s1.muted[a]
        THEN [s1 EXCEPT !.paused[a] = FALSE, !.playEvt[a] = TRUE]
        ELSE s1

\* el.play().catch(() => {}): the platform refuses it on an unmuted element
\* before any interaction (the rejection is swallowed); otherwise a paused
\* element starts and queues its 'play' event.
play(s, a, g) ==
  LET s1 == [s EXCEPT !.cmds = @ \cup {<<"play", a>>}]
  IN  IF (g \/ s1.muted[a]) /\ s1.paused[a]
        THEN [s1 EXCEPT !.paused[a] = FALSE, !.playEvt[a] = TRUE]
        ELSE s1

\* el.pause(): a playing element pauses and queues its 'pause' event.
pause(s, a) ==
  LET s1 == [s EXCEPT !.cmds = @ \cup {<<"pause", a>>}]
  IN  IF s1.paused[a] THEN s1
      ELSE [s1 EXCEPT !.paused[a] = TRUE, !.pauseEvt[a] = TRUE]

\* el.currentTime = t
setCurrentTime(s, a, t) ==
  [s EXCEPT !.currentTime[a] = t, !.cmds = @ \cup {<<"seek", a>>}]

\* applyVolumes with the two volumes exchanged
applyVolumesSwapped(s) ==
  LET beforeVol == s.mixValue * s.masterLevel
      afterVol  == (100 - s.mixValue) * s.masterLevel
      muteState == s.masterLevel = 0
  IN  [s EXCEPT !.volume = [a \in A |-> IF a = "before" THEN beforeVol ELSE afterVol],
                !.muted  = [a \in A |-> muteState]]

applyVolumes(s) ==
  LET beforeVol == (100 - s.mixValue) * s.masterLevel
      afterVol  == s.mixValue * s.masterLevel
      muteState == s.masterLevel = 0
  IN  [s EXCEPT !.volume = [a \in A |-> IF a = "before" THEN beforeVol ELSE afterVol],
                !.muted  = [a \in A |-> muteState]]

applyFader(s, value) ==
  applyVolumes([s EXCEPT !.mixValue = Clamp01(value)])

\* setMasterLevel without the clamp
setMasterLevelNoClamp(s, level, g) ==
  LET s1 == applyVolumes([s EXCEPT !.masterLevel = level])
  IN  IF s1.masterLevel > 0
        THEN play(play(s1, "before", g), "after", g)
        ELSE s1

\* setMasterLevel taking its argument as a change of the level
setMasterLevelAdds(s, level, g) ==
  LET s1 == applyVolumes([s EXCEPT !.masterLevel = Clamp01(s.masterLevel + level)])
  IN  IF s1.masterLevel > 0
        THEN play(play(s1, "before", g), "after", g)
        ELSE s1

setMasterLevel(s, level, g) ==
  LET s1 == applyVolumes([s EXCEPT !.masterLevel = Clamp01(level)])
  IN  IF s1.masterLevel > 0
        THEN play(play(s1, "before", g), "after", g)
        ELSE s1

snapTo(s, value) ==
  applyFader(IF hasFader THEN [s EXCEPT !.faderValue = value] ELSE s, value)

\* alignPlayback snapping at the threshold already
alignPlaybackAtLimit(s, leader, follower) ==
  IF Abs(s.currentTime[leader] - s.currentTime[follower]) >= DriftLimit
    THEN setCurrentTime(s, follower, s.currentTime[leader])
    ELSE s

alignPlayback(s, leader, follower) ==
  IF Abs(s.currentTime[leader] - s.currentTime[follower]) > DriftLimit
    THEN setCurrentTime(s, follower, s.currentTime[leader])
    ELSE s

\* ensureDualPlay moving whichever track is later back to the earlier one
ensureDualPlayToEarlier(s, origin, g) ==
  LET partner == IF origin = "before" THEN "after" ELSE "before"
      s1 == IF s.currentTime[origin] < s.currentTime[partner]
              THEN alignPlayback(s, origin, partner)
              ELSE alignPlayback(s, partner, origin)
  IN  play(s1, partner, g)

ensureDualPlay(s, origin, g) ==
  LET partner == IF origin = "before" THEN "after" ELSE "before"
  IN  play(alignPlayback(s, origin, partner), partner, g)

\* toggleTarget with the two extremes exchanged
toggleTargetInverted(s) ==
  LET current == IF hasFader THEN s.faderValue ELSE defaultFade
  IN  IF current >= 50 THEN 100 ELSE 0

\* const current = fader ? Number(fader.value) : defaultFade;
\* const next = current >= 50 ? 0 : 100;
toggleTarget(s) ==
  LET current == IF hasFader THEN s.faderValue ELSE defaultFade
  IN  IF current >= 50 THEN 0 ELSE 100

\* The audio elements as the page creates them, before wireAudio has run.
AudioInit(f) ==
  [ mixValue    |-> defaultFade,
    masterLevel |-> 0,
    faderValue  |-> f,
    volume      |-> [a \in A |-> 10000],
    muted       |-> [a \in A |-> FALSE],
    paused      |-> [a \in A |-> TRUE],
    currentTime |-> [a \in A |-> 0],
    playEvt     |-> [a \in A |-> FALSE],
    pauseEvt    |-> [a \in A |-> FALSE],
    cmds        |-> {},
    note        |-> <<>> ]

\* wireAudio after both tones are rendered (lines 182-299): the listeners
\* are attached, the fader is applied, and both tracks start muted.
wireAudioTail(s) ==
  LET s1 == snapTo(s, IF hasFader THEN s.faderValue ELSE defaultFade)
      s2 == [s1 EXCEPT !.muted = [a \in A |-> TRUE]]
  IN  play(play(s2, "before", gesture), "after", gesture)

\* ------------------------------------------- the visibility level ----
\* computeLevel of a section whose document rows are top .. top+height-1,
\* in percent.
visibleLevel(top, height, y, h) ==
  LET rectTop    == top - y
      rectBottom == rectTop + height
      visible    == Max(0, Min(rectBottom, h) - Max(rectTop, 0))
      maxVisible == Min(h, IF height # 0 THEN height ELSE h)
      ratio      == IF maxVisible # 0 THEN (visible * 100) \div maxVisible ELSE 0
  IN  Clamp01(ratio)

audioLevel == visibleLevel(AudioTop, AudioH, scrollY, vh)
meterLevel == visibleLevel(MeterTop, MeterH, scrollY, vh)

\* ------------------------------------------- the meter controller ----
meterPlay(s, a) == [s EXCEPT !.cmds = @ \cup {<<"play", a>>}]

meterApplyVolumesArmed(s) ==
  LET beforeVol == (100 - s.mix) * s.masterLevel
      afterVol  == s.mix * s.masterLevel
      s1 == [s EXCEPT !.muted  = [a \in A |-> s.masterLevel = 0 \/ ~s.unlocked],
                      !.volume = [a \in A |-> IF a = "before" THEN beforeVol ELSE afterVol]]
  IN  IF s1.unlocked THEN meterPlay(meterPlay(s1, "before"), "after") ELSE s1

meterApplyVolumes(s) ==
  LET beforeVol == (100 - s.mix) * s.masterLevel
      afterVol  == s.mix * s.masterLevel
      s1 == [s EXCEPT !.muted  = [a \in A |-> s.masterLevel = 0],
                      !.volume = [a \in A |-> IF a = "before" THEN beforeVol ELSE afterVol]]
  IN  IF s1.unlocked THEN meterPlay(meterPlay(s1, "before"), "after") ELSE s1

setMaster(s, level) ==
  meterApplyVolumes([s EXCEPT !.masterLevel = Clamp01(level)])

MeterInit ==
  [ wired       |-> FALSE,
    mix         |-> 50,
    masterLevel |-> 0,
    unlocked    |-> FALSE,
    volume      |-> [a \in A |-> 10000],
    muted       |-> [a \in A |-> FALSE],
    currentTime |-> [a \in A |-> 0],
    cmds        |-> {},
    note        |-> <<>> ]

\* f applied n times to s
RECURSIVE timesAudio(_, _, _, _)
timesAudio(n, s, level, g) ==
  IF n = 0 THEN s ELSE timesAudio(n - 1, setMasterLevel(s, level, g), level, g)

RECURSIVE timesMeter(_, _, _)
timesMeter(n, s, level) ==
  IF n = 0 THEN s ELSE timesMeter(n - 1, setMaster(s, level), level)


\* ------------------------------------------ the video pair (sync) ----
\* The pair is primary = "before", secondary = "after".  Each element has
\* readyState 0..4, a paused flag, a position, a pending seek (seeking), and
\* queued 'canplay' and 'ended' events.  syncVideoPair's closure holds
\* resetting, and, per restart session, ready and the onSeeked listeners
\* (seekedL).  startL says the 'canplay' listeners of start are attached.
\* settle is the state of the play promise onSeeked took from each element.
\* confirmed records which elements emitted 'seeked' to onSeeked.

\* the guard cleared only once both promises are fulfilled, as
\* Promise.all([...]).then(...) would
closeIfFulfilled(s) ==
  IF s.resetting /\ \A e \in A : s.settle[e] = "fulfilled"
    THEN [s EXCEPT !.resetting = FALSE, !.settle = [e \in A |-> "none"],
                   !.note = <<"closed", s.settle>>]
    ELSE s

\* Promise.allSettled([...]).finally(() => { resetting = false; }) runs as
\* soon as both promises have settled.  note records how they settled.
closeIfSettled(s) ==
  IF s.resetting /\ \A e \in A : s.settle[e] \in {"fulfilled", "rejected"}
    THEN [s EXCEPT !.resetting = FALSE, !.settle = [e \in A |-> "none"],
                   !.note = <<"closed", s.settle>>]
    ELSE s

\* video.play(): refused on an unmuted element before any interaction.
vplay(s, e, g) ==
  LET s1 == [s EXCEPT !.cmds = @ \cup {<<"play", e>>}]
  IN  IF g \/ s1.muted[e] THEN [s1 EXCEPT !.paused[e] = FALSE] ELSE s1

\* video.pause(): a pending play promise of the element is rejected.
vpause(s, e) ==
  closeIfSettled(
    [s EXCEPT !.cmds = @ \cup {<<"pause", e>>},
              !.paused[e] = TRUE,
              !.settle[e] = IF @ = "pending" THEN "rejected" ELSE @])

\* video.currentTime = t: an element with readyState 0 only notes the
\* position; any other starts a seek, which ends with a 'seeked' event.
vseek(s, e, t) ==
  [s EXCEPT !.cmds = @ \cup {<<"seek", e>>},
            !.currentTime[e] = t,
            !.seeking[e] = (s.readyState[e] # 0)]

\* video.load(): the element starts over with the new source; its queued
\* events and its pending seek are dropped, a pending play promise rejected.
vload(s, e) ==
  closeIfSettled(
    [s EXCEPT !.readyState[e] = 0,
              !.paused[e] = TRUE,
              !.currentTime[e] = 0,
              !.seeking[e] = FALSE,
              !.canplayEvt[e] = FALSE,
              !.endedEvt[e] = FALSE,
              !.settle[e] = IF @ = "pending" THEN "rejected" ELSE @])

\* the play promise onSeeked takes from element e
resume(s, e, g) ==
  LET s1 == vplay(s, e, g)
  IN  [s1 EXCEPT !.settle[e] = IF g \/ s.muted[e] THEN "pending" ELSE "rejected",
                 !.cmds = @ \cup {<<"resume", e>>}]

onSeeked(s, g) ==
  LET s1 == [s EXCEPT !.ready = @ + 1]
  IN  IF s1.ready < NeedSeeked THEN s1
      ELSE closeIfSettled(
             resume(resume([s1 EXCEPT !.seekedL = FALSE], "before", g), "after", g))

\* restart without its re-entrancy guard
restartNoGuard(s) ==
  LET s1 == vpause(vpause([s EXCEPT !.resetting = TRUE], "before"), "after")
      s2 == vseek(vseek(s1, "before", 0), "after", 0)
  IN  [s2 EXCEPT !.ready = 0, !.seekedL = TRUE,
                 !.confirmed = [e \in A |-> FALSE]]

restart(s) ==
  IF s.resetting THEN [s EXCEPT !.note = <<"ignored">>]
  ELSE LET s1 == vpause(vpause([s EXCEPT !.resetting = TRUE], "before"), "after")
           s2 == vseek(vseek(s1, "before", 0), "after", 0)
       IN  [s2 EXCEPT !.ready = 0, !.seekedL = TRUE,
                      !.confirmed = [e \in A |-> FALSE]]

start(s, g) ==
  IF s.readyState["before"] < CanPlay \/ s.readyState["after"] < CanPlay THEN s
  ELSE LET s1 == vseek(vseek([s EXCEPT !.startL = FALSE], "before", 0), "after", 0)
       IN  vplay(vplay(s1, "before", g), "after", g)

\* syncVideoPair(primary, secondary), lines 113-158
syncVideoPair(s, g) ==
  start([s EXCEPT !.wired = TRUE, !.startL = TRUE], g)

syncVideos(s) ==
  LET time == Min(s.currentTime["before"], s.currentTime["after"])
  IN  vseek(vseek(s, "before", time), "after", time)

setSource(s, e, g) ==
  vplay([vload(s, e) EXCEPT !.userProvided[e] = TRUE], e, g)

\* autoPlayVideos, lines 84-88
autoPlayVideos(s, g) ==
  LET s1 == [s EXCEPT !.muted = [e \in A |-> TRUE]]
  IN  vplay(vplay(s1, "before", g), "after", g)

VideoInit(m) ==
  [ readyState   |-> [e \in A |-> 0],
    paused       |-> [e \in A |-> TRUE],
    currentTime  |-> [e \in A |-> 0],
    seeking      |-> [e \in A |-> FALSE],
    muted        |-> [e \in A |-> m],
    userProvided |-> [e \in A |-> FALSE],
    canplayEvt   |-> [e \in A |-> FALSE],
    endedEvt     |-> [e \in A |-> FALSE],
    wired        |-> FALSE,
    startL       |-> FALSE,
    resetting    |-> FALSE,
    ready        |-> 0,
    seekedL      |-> FALSE,
    settle       |-> [e \in A |-> "none"],
    confirmed    |-> [e \in A |-> FALSE],
    cmds         |-> {},
    note         |-> <<>> ]

\* ------------------------------------------------- bufferToWave ----
\* An AudioBuffer is [numberOfChannels, length, sampleRate, channels], its
\* samples in units of 1/SampleScale.  buffer is the ArrayBuffer, a sequence
\* of 'total' bytes; pos and offset are the encoder's loop variables.
Samples == -(SampleScale + 1) .. (SampleScale + 1)
SampleRates == {1, 44100}

\* view.setUint32(pos, data, true) / setUint16: little-endian bytes of data
Byte(data, k) == (data \div (256 ^ k)) % 256
LE32(data) == <<Byte(data, 0), Byte(data, 1), Byte(data, 2), Byte(data, 3)>>
LE16(data) == <<Byte(data, 0), Byte(data, 1)>>

\* view.setInt16(pos, x, true): x is truncated towards zero and stored in
\* two's complement, modulo 2^16
Trunc(n, d) == IF n >= 0 THEN n \div d ELSE -((-n) \div d)
LEInt16(n, d) == LE16(Trunc(n, d) % 65536)

\* the bytes bs written into buf from offset at (0-based)
Put(buf, at, bs) ==
  [i \in 1..Len(buf) |->
     IF i > at /\ i <= at + Len(bs) THEN bs[i - at] ELSE buf[i]]

\* the sample left as it is
clampSampleNone(x) == x

\* Math.max(-1, Math.min(1, x))
clampSample(x) == Max(-SampleScale, Min(SampleScale, x))

\* sample < 0 ? sample * 0x8000 : sample * 0x7fff, as setInt16 stores it
sampleBytes(x) ==
  LET sample == clampSample(x)
  IN  IF sample < 0 THEN LEInt16(sample * 32768, SampleScale)
                    ELSE LEInt16(sample * 32767, SampleScale)

\* the container's four-character codes, as the little-endian numbers of
\* the source
RIFF == 1179011410
WAVE == 1163280727
FMT  == 544501094
DATA == 1635017060

waveHeader(w) ==
  LET numOfChan == w.numberOfChannels
  IN  LE32(RIFF) \o LE32(w.total - 8) \o LE32(WAVE)
      \o LE32(FMT) \o LE32(16) \o LE16(1) \o LE16(numOfChan)
      \o LE32(w.sampleRate) \o LE32(w.sampleRate * 2 * numOfChan)
      \o LE16(numOfChan * 2) \o LE16(16)
      \o LE32(DATA) \o LE32(w.total - 40 - 4)

\* one pass of the while loop: the samples of frame offset, channel by
\* channel
RECURSIVE frameBytes(_, _)
frameBytes(w, i) ==
  IF i > w.numberOfChannels THEN <<>>
  ELSE sampleBytes(w.channels[i][w.offset + 1]) \o frameBytes(w, i + 1)

WaveInput(chans, rate) ==
  [ numberOfChannels |-> Len(chans),
    length     |-> Len(chans[1]),
    sampleRate |-> rate,
    channels   |-> chans,
    total      |-> Len(chans[1]) * Len(chans) * 2 + 44,
    buffer     |-> [i \in 1..(Len(chans[1]) * Len(chans) * 2 + 44) |-> 0],
    pos        |-> 0,
    offset     |-> 0,
    at         |-> "start" ]

WaveInputs ==
  { WaveInput(chans, rate) :
      chans \in UNION { [1..c -> [1..n -> Samples]] : c \in 1..2, n \in 0..MaxFrames },
      rate \in SampleRates }

\* the page's own call is not followed byte by byte
WaveIdle == WaveInput(<< <<>>, <<>> >>, 44100)

\* ------------------------------------------------------- the page ----
InitPage ==
  /\ pc = "loading"
  /\ hasFader \in BOOLEAN
  /\ hasAudio \in BOOLEAN
  /\ wired = {}
  /\ gesture = FALSE
  /\ audio \in {AudioInit(f) : f \in IF hasFader THEN FaderInputs ELSE {0}}
  /\ meter = MeterInit
  /\ scrollY = 0
  /\ vh = ViewportH
  /\ raf = [c \in Controllers |-> {}]
  /\ evals = [c \in Controllers |-> 0]
  /\ video \in {VideoInit(m) : m \in BOOLEAN}

Init == InitPage /\ wave \in WaveInputs

\* the steps of init() before and after "await wireAudio()"
InitHead == {"initSplits", "wireImageInputs", "wireVideoInputs", "wireMeterVideos"}
InitTail == {"autoPlayVideos", "initReveal", "initMeterAudioControl",
             "initNavActiveState"}

\* autoPlayVideos, lines 90-94, then initMeterAudioControl
wireMeter(s) ==
  LET s1 == [s EXCEPT !.muted = [a \in A |-> TRUE]]
      s2 == meterPlay(meterPlay(s1, "before"), "after")
  IN  setMaster([s2 EXCEPT !.wired = TRUE, !.mix = 50, !.masterLevel = 0,
                           !.unlocked = FALSE], meterLevel)

\* DOMContentLoaded: init() runs to "await wireAudio()"; of its first
\* steps wireVideoInputs wires the video pair.  On a page without both
\* [data-audio] elements wireAudio returns at once (line 178), and init()
\* runs to its end without giving way to any event: initAudioMasterScroll
\* returns on the missing control, the other steps wire their parts.
Boot ==
  /\ pc = "loading"
  /\ IF hasAudio
       THEN /\ pc' = "tone"
            /\ wired' = InitHead
            /\ video' = syncVideoPair(Begin(video), gesture)
            /\ meter' = meter
       ELSE /\ pc' = "done"
            /\ wired' = InitHead \cup InitTail
            /\ video' = autoPlayVideos(syncVideoPair(Begin(video), gesture), gesture)
            /\ meter' = wireMeter(Begin(meter))
  /\ UNCHANGED <<hasFader, hasAudio, wave, gesture, audio, scrollY, vh, raf, evals>>

\* Both tones are rendered (wireAudio awaits one, then the other).  The
\* rest of wireAudio and of init() then runs without giving way to any
\* event: initAudioMasterScroll (with its first computeLevel),
\* autoPlayVideos, initReveal, initMeterAudioControl, initNavActiveState.
ToneRendered ==
  /\ pc = "tone"
  /\ pc' = "done"
  /\ wired' = wired \cup {"wireAudio", "initAudioMasterScroll"} \cup InitTail
  /\ audio' = setMasterLevel(wireAudioTail(Begin(audio)), audioLevel, gesture)
  /\ video' = autoPlayVideos(Begin(video), gesture)
  /\ meter' = wireMeter(Begin(meter))
  /\ UNCHANGED <<hasFader, hasAudio, wave, gesture, scrollY, vh, raf, evals>>

\* ctx.startRendering() rejects: renderTone, wireAudio and init() reject,
\* and the rest of init() never runs.
ToneFailed ==
  /\ pc = "tone"
  /\ pc' = "failed"
  /\ UNCHANGED <<wired, hasFader, hasAudio, wave, gesture, audio, meter, scrollY, vh,
                 raf, evals, video>>

\* ------------------------------------------- audio: the handlers ----
FaderInput(v) ==
  /\ "wireAudio" \in wired /\ hasFader
  /\ gesture' = TRUE
  /\ audio' = applyFader([Begin(audio) EXCEPT !.faderValue = v], v)
  /\ UNCHANGED <<pc, wired, hasFader, hasAudio, wave, meter, scrollY, vh, raf, evals, video>>

SnapBefore ==
  /\ "wireAudio" \in wired
  /\ gesture' = TRUE
  /\ audio' = ensureDualPlay(snapTo(Begin(audio), 0), "before", TRUE)
  /\ UNCHANGED <<pc, wired, hasFader, hasAudio, wave, meter, scrollY, vh, raf, evals, video>>

SnapAfter ==
  /\ "wireAudio" \in wired
  /\ gesture' = TRUE
  /\ audio' = ensureDualPlay(snapTo(Begin(audio), 100), "after", TRUE)
  /\ UNCHANGED <<pc, wired, hasFader, hasAudio, wave, meter, scrollY, vh, raf, evals, video>>

\* the handler with the rewind ahead of the pause commands
resetABRewindFirst(s) ==
  LET s1 == [s EXCEPT !.note = <<"reset", s.paused>>]
      s2 == setCurrentTime(setCurrentTime(s1, "before", 0), "after", 0)
      s3 == snapTo(pause(pause(s2, "before"), "after"), defaultFade)
  IN  setMasterLevel(s3, s3.masterLevel, TRUE)

\* the 'click' handler of the reset-ab control, lines 274-281.  note
\* records the paused flags the two tracks had when they were rewound.
resetAB(s) ==
  LET s1 == pause(pause(s, "before"), "after")
      s2 == setCurrentTime(setCurrentTime(
              [s1 EXCEPT !.note = <<"reset", s1.paused>>], "before", 0), "after", 0)
      s3 == snapTo(s2, defaultFade)
  IN  setMasterLevel(s3, s3.masterLevel, TRUE)

Reset ==
  /\ "wireAudio" \in wired
  /\ gesture' = TRUE
  /\ audio' = resetAB(Begin(audio))
  /\ UNCHANGED <<pc, wired, hasFader, hasAudio, wave, meter, scrollY, vh, raf, evals, video>>

keydownSpace(s) ==
  LET next == toggleTarget(s)
      s1   == [s EXCEPT !.note = <<"space", s.mixValue>>]
  IN  ensureDualPlay(snapTo(s1, next), IF next = 0 THEN "before" ELSE "after", TRUE)

KeySpace ==
  /\ "wireAudio" \in wired
  /\ gesture' = TRUE
  /\ audio' = keydownSpace(Begin(audio))
  /\ UNCHANGED <<pc, wired, hasFader, hasAudio, wave, meter, scrollY, vh, raf, evals, video>>

\* the exported control's setMasterLevel, called with any level
SetMasterLevelCall(v) ==
  /\ "wireAudio" \in wired
  /\ audio' = setMasterLevel(Begin(audio), v, gesture)
  /\ UNCHANGED <<pc, wired, hasFader, hasAudio, wave, gesture, meter, scrollY, vh, raf, evals, video>>

\* the 'play' event of track a
PlayEvent(a) ==
  /\ "wireAudio" \in wired /\ audio.playEvt[a]
  /\ LET s == [Begin(audio) EXCEPT !.playEvt[a] = FALSE,
                 !.note = IF audio.currentTime[a] - audio.currentTime[Other(a)] > DriftLimit
                            THEN <<"play", "forward">> ELSE <<"play">>]
     IN  audio' = ensureDualPlay(s, a, gesture)
  /\ UNCHANGED <<pc, wired, hasFader, hasAudio, wave, gesture, meter, scrollY, vh, raf, evals, video>>

\* the 'pause' listener of track a, lines 255-260
pauseListener(s, a) == IF ~s.paused[Other(a)] THEN pause(s, Other(a)) ELSE s

\* the 'pause' event of track a
PauseEvent(a) ==
  /\ "wireAudio" \in wired /\ audio.pauseEvt[a]
  /\ audio' = pauseListener([Begin(audio) EXCEPT !.pauseEvt[a] = FALSE], a)
  /\ UNCHANGED <<pc, wired, hasFader, hasAudio, wave, gesture, meter, scrollY, vh, raf, evals, video>>

\* the periodic 'timeupdate' event of a playing track a
TimeUpdate(a) ==
  /\ "wireAudio" \in wired /\ ~audio.paused[a]
  /\ audio' = alignPlayback(Begin(audio), a, Other(a))
  /\ UNCHANGED <<pc, wired, hasFader, hasAudio, wave, gesture, meter, scrollY, vh, raf, evals, video>>

\* setAudioFile's 'change' handler: load() pauses the element, rewinds it
\* and drops its queued events.
audioFile(s, a) ==
  LET s1 == [s EXCEPT !.paused[a] = TRUE, !.currentTime[a] = 0,
                      !.playEvt[a] = FALSE, !.pauseEvt[a] = FALSE]
  IN  play(setCurrentTime(s1, a, 0), a, TRUE)

AudioFileChange(a) ==
  /\ "wireAudio" \in wired
  /\ gesture' = TRUE
  /\ audio' = audioFile(Begin(audio), a)
  /\ UNCHANGED <<pc, wired, hasFader, hasAudio, wave, meter, scrollY, vh, raf, evals, video>>

\* ------------------------------------ audio: a chain of handlers ----
\* The events a handler run leaves queued: the 'play' and 'pause' events of
\* the tracks its commands started and paused, and the 'timeupdate' of
\* every track it has seeked.
queued(s) ==
  {<<"play", a>> : a \in {x \in A : s.playEvt[x]}}
    \cup {<<"pause", a>> : a \in {x \in A : s.pauseEvt[x]}}
    \cup {<<"timeupdate", a>> : a \in {x \in A : <<"seek", x>> \in s.cmds}}

\* s with its queued events taken over by the chain
taken(s) ==
  [Begin(s) EXCEPT !.playEvt = [a \in A |-> FALSE], !.pauseEvt = [a \in A |-> FALSE]]

\* the listener wireAudio has registered for event ev, lines 245-260
listener(s, ev, g) ==
  CASE ev[1] = "play" -> ensureDualPlay(s, ev[2], g)
    [] ev[1] = "pause" -> pauseListener(s, ev[2])
    [] ev[1] = "timeupdate" -> alignPlayback(s, ev[2], Other(ev[2]))

\* Whether the events of pending, dispatched in any order together with
\* the events their listeners queue, are all handled within fuel listener
\* runs.
RECURSIVE settles(_, _, _, _)
settles(s, pending, g, fuel) ==
  \/ pending = {}
  \/ /\ fuel > 0
     /\ \A ev \in pending :
          LET s1 == listener(taken(s), ev, g)
          IN  settles(s1, (pending \ {ev}) \cup queued(s1), g, fuel - 1)

\* one event from outside the script, on track a of an idle pair s: the
\* visitor (or the platform) starts or pauses the track, or a playing track
\* reports its position
externalPlay(s, a, fuel) ==
  LET s1 == play(taken(s), a, TRUE)
  IN  settles(s1, queued(s1), TRUE, fuel)

externalPause(s, a, fuel) ==
  LET s1 == pause(taken(s), a)
  IN  settles(s1, queued(s1), gesture, fuel)

externalReport(s, a, fuel) ==
  settles(taken(s), {<<"timeupdate", a>>}, gesture, fuel)

\* a playing track's decoder advances its position
AudioAdvance(a) ==
  /\ "wireAudio" \in wired /\ ~audio.paused[a]
  /\ audio.currentTime[a] + Step <= MaxPos * Step
  /\ audio' = [Begin(audio) EXCEPT !.currentTime[a] = @ + Step]
  /\ UNCHANGED <<pc, wired, hasFader, hasAudio, wave, gesture, meter, scrollY, vh, raf, evals, video>>

\* ------------------------------------- scroll, resize and refresh ----
\* onScroll of each wired controller, for an event of kind k:
\* window.requestAnimationFrame(computeLevel).  The platform dispatches at
\* most one scroll and one resize event per display refresh.
listening(c) ==
  IF c = "audio" THEN "initAudioMasterScroll" \in wired ELSE meter.wired

onScroll(k) ==
  /\ \A c \in Controllers : k \notin raf[c]
  /\ raf' = [c \in Controllers |-> IF listening(c) THEN raf[c] \cup {k} ELSE raf[c]]

Scroll(y) ==
  /\ y # scrollY
  /\ scrollY' = y
  /\ onScroll("scroll")
  /\ audio' = Begin(audio)
  /\ UNCHANGED <<pc, wired, hasFader, hasAudio, wave, gesture, meter, vh, evals, video>>

Resize(h) ==
  /\ h # vh
  /\ vh' = h
  /\ onScroll("resize")
  /\ audio' = Begin(audio)
  /\ UNCHANGED <<pc, wired, hasFader, hasAudio, wave, gesture, meter, scrollY, evals, video>>

\* A display refresh runs every queued callback: computeLevel once per
\* queued request.
Frame ==
  /\ \E c \in Controllers : raf[c] # {}
  /\ audio' = timesAudio(Cardinality(raf["audio"]), Begin(audio), audioLevel, gesture)
  /\ meter' = timesMeter(Cardinality(raf["meter"]), Begin(meter), meterLevel)
  /\ evals' = [c \in Controllers |-> Cardinality(raf[c])]
  /\ raf' = [c \in Controllers |-> {}]
  /\ UNCHANGED <<pc, wired, hasFader, hasAudio, wave, gesture, scrollY, vh, video>>

\* --------------------------------------------- video: the events ----
\* the decoder of e buffers more of its clip, up to readyState r
\* (HAVE_CURRENT_DATA, HAVE_FUTURE_DATA, HAVE_ENOUGH_DATA)
BufferLevels == {2, 3, 4}

Buffer(e, r) ==
  /\ r > video.readyState[e]
  /\ video' = [Begin(video) EXCEPT
                 !.readyState[e] = r,
                 !.canplayEvt[e] = @ \/ (video.readyState[e] < CanPlay /\ r >= CanPlay)]
  /\ UNCHANGED <<pc, wired, hasFader, hasAudio, wave, gesture, audio, meter, scrollY, vh, raf, evals>>

\* the 'canplay' event of e
CanPlayEvent(e) ==
  /\ video.canplayEvt[e]
  /\ LET s == [Begin(video) EXCEPT !.canplayEvt[e] = FALSE]
     IN  video' = IF s.startL THEN start(s, gesture) ELSE s
  /\ UNCHANGED <<pc, wired, hasFader, hasAudio, wave, gesture, audio, meter, scrollY, vh, raf, evals>>

\* a playing element advances; at the end of the clip it queues 'ended'
VideoAdvance(e) ==
  /\ ~video.paused[e] /\ video.readyState[e] >= CanPlay /\ ~video.seeking[e]
  /\ video.currentTime[e] < VideoLen
  /\ video' = [Begin(video) EXCEPT
                 !.currentTime[e] = @ + 1,
                 !.endedEvt[e] = (video.currentTime[e] + 1 = VideoLen)]
  /\ UNCHANGED <<pc, wired, hasFader, hasAudio, wave, gesture, audio, meter, scrollY, vh, raf, evals>>

\* the 'ended' event of e (loop is false): the element is paused at its
\* end, then restart runs
EndedEvent(e) ==
  /\ video.endedEvt[e]
  /\ LET s == [Begin(video) EXCEPT
                 !.endedEvt[e] = FALSE,
                 !.paused[e] = @ \/ (video.currentTime[e] = VideoLen)]
     IN  video' = IF s.wired THEN restart(s) ELSE s
  /\ UNCHANGED <<pc, wired, hasFader, hasAudio, wave, gesture, audio, meter, scrollY, vh, raf, evals>>

\* the 'seeked' event of e: its pending seek is done
Seeked(e) ==
  /\ video.seeking[e]
  /\ LET s == [Begin(video) EXCEPT !.seeking[e] = FALSE]
     IN  video' = IF s.seekedL
                    THEN onSeeked([s EXCEPT !.confirmed[e] = TRUE], gesture)
                    ELSE s
  /\ UNCHANGED <<pc, wired, hasFader, hasAudio, wave, gesture, audio, meter, scrollY, vh, raf, evals>>

\* playback of e starts: the play promise onSeeked holds is fulfilled
PlaySettles(e) ==
  /\ video.settle[e] = "pending"
  /\ ~video.paused[e] /\ video.readyState[e] >= CanPlay
  /\ video' = closeIfSettled([Begin(video) EXCEPT !.settle[e] = "fulfilled"])
  /\ UNCHANGED <<pc, wired, hasFader, hasAudio, wave, gesture, audio, meter, scrollY, vh, raf, evals>>

\* the 'change' handler of the file input of e (wireVideoInputs)
videoFile(s, e) ==
  LET s1 == setSource(s, e, TRUE)
  IN  IF s1.userProvided[Other(e)] THEN syncVideos(s1) ELSE s1

VideoFileChange(e) ==
  /\ pc # "loading"
  /\ gesture' = TRUE
  /\ video' = videoFile(Begin(video), e)
  /\ UNCHANGED <<pc, wired, hasFader, hasAudio, wave, audio, meter, scrollY, vh, raf, evals>>

\* ------------------------------------------- meter: the handlers ----
\* 'input' on the #visualizer split slider, lines 515-518
meterFader(s, v) == meterApplyVolumes([s EXCEPT !.mix = Clamp01(v)])

MeterFaderInput(v) ==
  /\ meter.wired
  /\ gesture' = TRUE
  /\ meter' = meterFader(Begin(meter), v)
  /\ UNCHANGED <<pc, wired, hasFader, hasAudio, wave, audio, scrollY, vh, raf, evals, video>>

\* 'click' on the enable-meter-audio button, lines 520-532
enableMeterAudio(s) ==
  LET s1 == [s EXCEPT !.unlocked = TRUE,
                      !.masterLevel = IF @ = 0 THEN MeterFloor ELSE @]
      s2 == [s1 EXCEPT !.currentTime = [a \in A |-> 0],
                       !.cmds = @ \cup {<<"seek", a>> : a \in A}]
      s3 == [s2 EXCEPT !.muted = [a \in A |-> FALSE]]
  IN  meterApplyVolumes(meterPlay(meterPlay(s3, "before"), "after"))

EnableMeterAudio ==
  /\ meter.wired
  /\ gesture' = TRUE
  /\ meter' = [enableMeterAudio(Begin(meter)) EXCEPT !.note = <<"enable">>]
  /\ UNCHANGED <<pc, wired, hasFader, hasAudio, wave, audio, scrollY, vh, raf, evals, video>>

\* a meter clip plays on (autoPlayVideos started it muted, and nothing of
\* the controller pauses it)
MeterAdvance(a) ==
  /\ meter.wired
  /\ meter.currentTime[a] < MaxPos * Step
  /\ meter' = [Begin(meter) EXCEPT !.currentTime[a] = @ + Step]
  /\ UNCHANGED <<pc, wired, hasFader, hasAudio, wave, gesture, audio, scrollY, vh, raf, evals, video>>

\* ------------------------------------------- bufferToWave: steps ----
\* lines 400-414: the header
WriteHeader ==
  /\ wave.at = "start"
  /\ wave' = [wave EXCEPT !.buffer = Put(@, 0, waveHeader(wave)), !.pos = 44,
                          !.at = "samples"]
  /\ UNCHANGED <<pc, wired, hasFader, hasAudio, gesture, audio, meter, scrollY, vh,
                 raf, evals, video>>

\* lines 420-427: one pass of "while (pos < length)"
WriteFrame ==
  /\ wave.at = "samples" /\ wave.pos < wave.total
  /\ wave' = [wave EXCEPT !.buffer = Put(@, wave.pos, frameBytes(wave, 1)),
                          !.pos = @ + 2 * wave.numberOfChannels,
                          !.offset = @ + 1]
  /\ UNCHANGED <<pc, wired, hasFader, hasAudio, gesture, audio, meter, scrollY, vh,
                 raf, evals, video>>

\* line 429: return buffer
ReturnBuffer ==
  /\ wave.at = "samples" /\ wave.pos >= wave.total
  /\ wave' = [wave EXCEPT !.at = "done"]
  /\ UNCHANGED <<pc, wired, hasFader, hasAudio, gesture, audio, meter, scrollY, vh,
                 raf, evals, video>>

\* --------------------------------------------- the specifications ----
NextInit == Boot \/ ToneRendered \/ ToneFailed

NextAudio ==
  \/ NextInit
  \/ \E v \in FaderInputs : FaderInput(v)
  \/ SnapBefore
  \/ SnapAfter
  \/ Reset
  \/ KeySpace
  \/ \E v \in LevelInputs : SetMasterLevelCall(v)
  \/ \E a \in A : PlayEvent(a)
  \/ \E a \in A : PauseEvent(a)
  \/ \E a \in A : TimeUpdate(a)
  \/ \E a \in A : AudioFileChange(a)
  \/ \E a \in A : AudioAdvance(a)

NextScroll ==
  \/ NextInit
  \/ \E y \in 0..MaxScroll : Scroll(y)
  \/ \E h \in {ViewportH, ViewportH + 1} : Resize(h)
  \/ Frame

NextVideo ==
  \/ Boot
  \/ ToneRendered
  \/ \E e \in A, r \in BufferLevels : Buffer(e, r)
  \/ \E e \in A : CanPlayEvent(e)
  \/ \E e \in A : VideoAdvance(e)
  \/ \E e \in A : EndedEvent(e)
  \/ \E e \in A : Seeked(e)
  \/ \E e \in A : PlaySettles(e)
  \/ \E e \in A : VideoFileChange(e)

NextMeter ==
  \/ NextScroll
  \/ \E v \in FaderInputs : MeterFaderInput(v)
  \/ EnableMeterAudio
  \/ \E a \in A : MeterAdvance(a)

NextWave == WriteHeader \/ WriteFrame \/ ReturnBuffer

Next == NextAudio \/ NextScroll \/ NextVideo \/ NextMeter \/ NextWave

Spec == Init /\ [][Next]_vars

\* The three parts of the page share no state but the initialisation
\* sequence and the interaction flag, so each is also checked alone, the
\* other parts left as the initialisation leaves them.

\* The audio mixer.  Its master level is driven through the exported
\* setMasterLevel, which is also what a display refresh calls.
InitAudio == InitPage /\ wave = WaveIdle /\ hasAudio /\ video.muted["before"]
SpecAudio == InitAudio /\ [][NextAudio]_vars

\* The visibility controllers: scroll, resize and display refresh.
InitScroll == InitPage /\ wave = WaveIdle /\ video.muted["before"]
SpecScroll == InitScroll /\ [][NextScroll]_vars

\* The meter controller, with the visibility evaluations that drive it.
InitMeter == InitPage /\ wave = WaveIdle /\ hasFader /\ audio.faderValue = 30 /\ video.muted["before"]
SpecMeter == InitMeter /\ [][NextMeter]_vars

\* The encoder of the demo tones, on every buffer of the bounded sizes.
InitWave ==
  /\ InitPage /\ hasAudio /\ hasFader /\ audio.faderValue = 30 /\ video.muted["before"]
  /\ wave \in WaveInputs
SpecWave == InitWave /\ [][NextWave]_vars

\* The video pair.
InitVideo == InitPage /\ wave = WaveIdle /\ hasAudio /\ hasFader /\ audio.faderValue = 30
SpecVideo == InitVideo /\ [][NextVideo]_vars

\* ========================================================= claims ====
BothPlayCmds == {<<"play", "before">>, <<"play", "after">>}

\* C1: once the audio pair is wired, before.volume = (1 - mixRatio) *
\* masterLevel and after.volume = mixRatio * masterLevel, so the two volumes
\* sum to masterLevel, and both tracks are muted iff masterLevel is 0.
MixerInvariant ==
  pc = "done" =>
    /\ audio.volume["before"] = (100 - audio.mixValue) * audio.masterLevel
    /\ audio.volume["after"] = audio.mixValue * audio.masterLevel
    /\ audio.volume["before"] + audio.volume["after"] = 100 * audio.masterLevel
    /\ \A a \in A : audio.muted[a] <=> (audio.masterLevel = 0)
    /\ audio.mixValue \in 0..100 /\ audio.masterLevel \in 0..100

\* the wired mixer at an audible, uneven mix
MixerAudible ==
  /\ pc = "done"
  /\ audio.mixValue = 30 /\ audio.masterLevel = 50
  /\ audio.volume["before"] = 3500 /\ audio.volume["after"] = 1500
  /\ ~audio.muted["before"] /\ ~audio.muted["after"]

\* C2: in an open restart session no resume (play) command is issued to
\* either element until each of the two elements has emitted 'seeked'.
ResumeWaitsForBoth ==
  \A e \in A : <<"resume", e>> \in video.cmds => \A x \in A : video.confirmed[x]

\* C3: an 'ended' event that arrives while a restart session is open
\* changes nothing: no pause, no rewind, no new listeners, no reset of the
\* confirmation counter.
EndedIgnoredInSession ==
  [][\A e \in A :
       (EndedEvent(e) /\ video.wired /\ video.resetting) =>
          /\ video'.cmds = {}
          /\ video'.resetting
          /\ video'.ready = video.ready
          /\ video'.seekedL = video.seekedL
          /\ video'.confirmed = video.confirmed
          /\ video'.settle = video.settle
          /\ video'.currentTime = video.currentTime
          /\ video'.seeking = video.seeking
          /\ video'.paused[Other(e)] = video.paused[Other(e)]]_vars

\* an 'ended' event was ignored after one confirmation had been counted
EndedIgnoredAfterConfirmation ==
  /\ video.note = <<"ignored">>
  /\ video.resetting /\ video.seekedL /\ video.ready = 1

\* C4: at a position report of a track, if the two positions differ by more
\* than 80 ms the other track is set to the reporting track's position,
\* which does not change; otherwise neither position changes.
DriftCorrection ==
  [][\A a \in A :
       TimeUpdate(a) =>
         IF Abs(audio.currentTime[a] - audio.currentTime[Other(a)]) > 80
           THEN /\ audio'.currentTime[Other(a)] = audio.currentTime[a]
                /\ audio'.currentTime[a] = audio.currentTime[a]
           ELSE audio'.currentTime = audio.currentTime]_vars

\* a position report of "before" has just moved "after" to its position
DriftCorrected ==
  /\ audio.cmds = {<<"seek", "after">>}
  /\ audio.currentTime["after"] = audio.currentTime["before"]
  /\ audio.currentTime["before"] > 80

\* C5: between two display refreshes each controller evaluates the
\* visibility level at most once, however many scroll and resize events
\* fire.
EvaluatedOncePerRefresh ==
  \A c \in Controllers : evals[c] <= 1

\* C6: no play command is issued to either element of the video pair until
\* both report readyState >= 3 (a resume of a restart session aside).
NoPartialStart ==
  (\E e \in A : <<"play", e>> \in video.cmds /\ <<"resume", e>> \notin video.cmds)
     => \A x \in A : video.readyState[x] >= 3

\* C7: setMasterLevel(v) stores v clamped to [0,1], recomputes both volumes
\* from the mix ratio, mutes both tracks iff the clamped value is 0 and
\* issues play to both iff it is > 0; mix 0.35 and level 1.0 give volumes
\* 0.65 and 0.35, unmuted, play issued to both.
SetMasterLevelContract ==
  [][\A v \in LevelInputs :
       SetMasterLevelCall(v) =>
         LET c == IF v < 0 THEN 0 ELSE IF v > 100 THEN 100 ELSE v
         IN  /\ audio'.masterLevel = c
             /\ audio'.mixValue = audio.mixValue
             /\ audio'.volume["before"] = (100 - audio.mixValue) * c
             /\ audio'.volume["after"] = audio.mixValue * c
             /\ \A a \in A : audio'.muted[a] <=> (c = 0)
             /\ \A a \in A : (<<"play", a>> \in audio'.cmds) <=> (c > 0)
             /\ (audio.mixValue = 35 /\ v = 100) =>
                   /\ audio'.volume["before"] = 6500
                   /\ audio'.volume["after"] = 3500
                   /\ audio'.muted = [a \in A |-> FALSE]
                   /\ audio'.cmds = BothPlayCmds]_vars

\* setMasterLevel has raised the level to 1 at mix 0.35
FullLevelAtDefaultMix ==
  /\ pc = "done"
  /\ audio.cmds = BothPlayCmds
  /\ audio.mixValue = 35 /\ audio.masterLevel = 100
  /\ audio.volume["before"] = 6500 /\ audio.volume["after"] = 3500
  /\ ~audio.muted["before"] /\ ~audio.muted["after"]

\* C8: from any state of the wired mixer and for any v, setMasterLevel(v)
\* called twice in a row leaves the master level, both volumes, the mute
\* flags and the paused flags as one call leaves them.
SetMasterLevelIdempotent ==
  pc = "done" =>
    \A v \in LevelInputs :
      LET once  == setMasterLevel(audio, v, gesture)
          twice == setMasterLevel(once, v, gesture)
      IN  /\ twice.masterLevel = once.masterLevel
          /\ twice.volume = once.volume
          /\ twice.muted = once.muted
          /\ twice.paused = once.paused

\* setMasterLevel has set the level to 0.5 and both tracks play unmuted
HalfLevelPlaying ==
  /\ pc = "done"
  /\ audio.cmds = BothPlayCmds
  /\ audio.masterLevel = 50
  /\ ~audio.paused["before"] /\ ~audio.paused["after"]
  /\ ~audio.muted["before"] /\ ~audio.muted["after"]

\* C9: pressing the space key sets the mix ratio to 0 when the current mix
\* ratio is >= 50 and to 100 otherwise, with or without a fader control on
\* the page.
ToggleFollowsMix ==
  [][KeySpace =>
       audio'.mixValue = IF audio.mixValue >= 50 THEN 0 ELSE 100]_vars

\* C10, as stated: from mix ratio 30 the shortcut yields 0, from 80 it
\* yields 100.
ToggleCaseAsStated ==
  [][KeySpace =>
       /\ audio.mixValue = 30 => audio'.mixValue = 0
       /\ audio.mixValue = 80 => audio'.mixValue = 100]_vars

\* C10, amended: from mix ratio 30 the shortcut yields mix ratio 100, from
\* 80 it yields mix ratio 0.
ToggleCase ==
  [][KeySpace =>
       /\ audio.mixValue = 30 => audio'.mixValue = 100
       /\ audio.mixValue = 80 => audio'.mixValue = 0]_vars

\* the shortcut was pressed at mix ratio 30 and the mix ratio is now 100
ToggledFrom30 ==
  /\ hasFader
  /\ audio.note = <<"space", 30>>
  /\ audio.mixValue = 100 /\ audio.faderValue = 100

\* C11, as stated: the meter tracks stay muted until the enable-audio
\* action has been triggered; visibility evaluations and meter fader
\* inputs alone never unmute either of them.
MeterUserArmed ==
  (meter.wired /\ ~meter.unlocked) => \A a \in A : meter.muted[a]

\* C11, amended: once the meter controller is wired, the meter tracks are
\* muted exactly while the meter's master level is 0, enable-audio
\* triggered or not.
MeterMutedWhileSilent ==
  meter.wired => \A a \in A : meter.muted[a] <=> meter.masterLevel = 0

\* a visibility evaluation found the #visualizer section on screen and
\* unmuted both meter tracks; enable-audio has not been triggered
MeterUnmutedByScroll ==
  /\ meter.wired /\ ~meter.unlocked
  /\ evals["meter"] > 0
  /\ meter.masterLevel > 0
  /\ \A a \in A : ~meter.muted[a]

\* C12: once init() has ended, with the audio wiring failed or not, the
\* steps of init() after the audio wiring have run: video autoplay, reveal
\* animations, the meter audio controller and navigation highlighting.
WiringIndependent ==
  pc \in {"done", "failed"} => (InitTail \subseteq wired /\ meter.wired)

\* C13: while, in an open restart session, an element has not emitted
\* 'seeked', no step closes the session: the resetting guard and the
\* 'seeked' listeners stay, and no resume command is issued - whatever the
\* step is (a further 'seeked' of the other element, a re-sync, 'canplay').
StalledSessionStaysOpen ==
  [][\A e \in A :
       (/\ video.resetting /\ video.seekedL
        /\ ~video.confirmed[e] /\ ~video'.confirmed[e]) =>
          /\ video'.resetting /\ video'.seekedL
          /\ \A x \in A : <<"resume", x>> \notin video'.cmds]_vars

\* C14: after the handlers of a 'pause' event on either audio track have
\* run, both tracks are paused.
PauseEventPausesBoth ==
  [][\A a \in A : PauseEvent(a) => \A x \in A : audio'.paused[x]]_vars

\* C16: the reset action leaves both audio tracks at position 0, the mix
\* ratio at the default 35, the master level as it was, and the volumes and
\* mute flags the mixer invariant gives for them; it issues pause to both
\* tracks, and both are paused when they are rewound.
ResetContract ==
  [][Reset =>
       /\ \A a \in A : audio'.currentTime[a] = 0
       /\ audio'.mixValue = defaultFade
       /\ audio'.masterLevel = audio.masterLevel
       /\ audio'.volume["before"] = (100 - defaultFade) * audio.masterLevel
       /\ audio'.volume["after"] = defaultFade * audio.masterLevel
       /\ \A a \in A : audio'.muted[a] <=> audio.masterLevel = 0
       /\ {<<"pause", a>> : a \in A} \subseteq audio'.cmds
       /\ {<<"seek", a>> : a \in A} \subseteq audio'.cmds
       /\ audio'.note = <<"reset", [a \in A |-> TRUE]>>]_vars

\* reset ran at master level 50 while both tracks were playing: both were
\* paused (their 'pause' events are queued), rewound, and started again
ResetWhilePlaying ==
  /\ audio.note # <<>> /\ audio.note[1] = "reset"
  /\ \A a \in A : audio.pauseEvt[a] /\ audio.currentTime[a] = 0 /\ ~audio.paused[a]
  /\ audio.mixValue = defaultFade /\ audio.masterLevel = 50
  /\ audio.volume["before"] = 3250 /\ audio.volume["after"] = 1750

\* little-endian readers of a byte sequence, at a 0-based offset
U16At(b, at) == b[at + 1] + 256 * b[at + 2]
U32At(b, at) == U16At(b, at) + 65536 * U16At(b, at + 2)
S16At(b, at) == IF U16At(b, at) >= 32768 THEN U16At(b, at) - 65536 ELSE U16At(b, at)
TextAt(b, at) == <<b[at + 1], b[at + 2], b[at + 3], b[at + 4]>>

EnableFirstOnly ==
  [][(EnableMeterAudio /\ meter.unlocked) =>
        /\ meter'.currentTime = meter.currentTime
        /\ meter'.masterLevel = meter.masterLevel]_vars

\* C18, as stated: a 'play' event on a track while the positions differ by
\* more than 80 ms leaves both positions at the smaller of the two.
PlaySnapsLaterToEarlier ==
  [][\A a \in A :
       (PlayEvent(a) /\ Abs(audio.currentTime[a] - audio.currentTime[Other(a)]) > DriftLimit) =>
          \A x \in A : audio'.currentTime[x] =
                          Min(audio.currentTime["before"], audio.currentTime["after"])]_vars

\* C18, amended: a 'play' event on a track while the positions differ by
\* more than 80 ms snaps the other track to the position of the track the
\* event occurred on, earlier or later; when they differ by 80 ms or less
\* no position changes.
PlaySnapsPartnerToOrigin ==
  [][\A a \in A : PlayEvent(a) =>
       IF Abs(audio.currentTime[a] - audio.currentTime[Other(a)]) > DriftLimit
         THEN \A x \in A : audio'.currentTime[x] = audio.currentTime[a]
         ELSE audio'.currentTime = audio.currentTime]_vars

\* a 'play' event occurred on the track that was ahead by more than 80 ms,
\* and its partner was moved forward to it
PartnerMovedForward ==
  /\ audio.note = <<"play", "forward">>
  /\ <<"seek", "before">> \in audio.cmds \/ <<"seek", "after">> \in audio.cmds
  /\ audio.currentTime["before"] = audio.currentTime["after"]
  /\ audio.currentTime["before"] > DriftLimit

\* C19: the resume commands of a restart session are issued with both
\* elements at position 0.
ResumeAtZero ==
  (\E e \in A : <<"resume", e>> \in video.cmds) =>
     \A e \in A : video.currentTime[e] = 0

\* no 'play' or 'pause' event of the audio pair is queued
Idle == \A a \in A : ~audio.playEvt[a] /\ ~audio.pauseEvt[a]

SessionClosesOnSettle ==
  /\ (video.resetting /\ ~video.seekedL) =>
        /\ \E e \in A : video.settle[e] = "pending"
        /\ \A e \in A : video.settle[e] # "none"
  /\ (\E e \in A : video.settle[e] # "none") =>
        (video.resetting /\ ~video.seekedL)

\* a restart session has just closed with a resume command rejected (the
\* other fulfilled, or rejected as well)
ClosedAfterRejection ==
  /\ video.note # <<>> /\ video.note[1] = "closed"
  /\ \E e \in A : video.note[2][e] = "rejected"
  /\ ~video.resetting

====
